---- MODULE Spec2Model ----
(***************************************************************************)
(* Model of sql_to_drizzle (src/main.py): the conversion of one CREATE      *)
(* TABLE statement into Drizzle ORM schema code.                            *)
(*                                                                          *)
(* The SQL text is modelled as a sequence of lexemes, one string each,      *)
(* separated by single blanks after normalisation: the punctuation "(",     *)
(* ")" and ",", the matched header "CREATE TABLE t", keywords, names and    *)
(* literals.  The regular expressions of the source are modelled by what    *)
(* they match on such a sequence.  DEFAULT literals and ENUM values are     *)
(* matched character by character (Chars).                                  *)
(***************************************************************************)
EXTENDS Integers, Sequences, FiniteSets, TLC

VARIABLES raw, pc, sql_text, table_name, inside, items, idx, columns,
          colOrder, table_level_pk, table_level_fks, enums, composite_pk,
          lines, result

vars == <<raw, pc, sql_text, table_name, inside, items, idx, columns,
          colOrder, table_level_pk, table_level_fks, enums, composite_pk,
          lines, result>>

\* ------------------------------------------------------------------ bounds
MaxLen == 7        \* lexemes of a free-form text (SpecText)
MaxCols == 2       \* column definitions of a structured statement (Spec)
MaxCons == 1       \* table-level constraint items of a structured statement

\* ---------------------------------------------------------------- lexemes
Header == "CREATE TABLE t"
Backtick == "BACKTICK"     \* the backtick character
Names == {"A", "B", "c", "created_at", "Updated_At", "deleted_at"}

\* str.upper() on the lexemes that have lower-case letters
Upper(l) ==
  CASE l = "c" -> "C"
    [] l = "r" -> "R"
    [] l = "x" -> "X"
    [] l = "now" -> "NOW"
    [] l = "true" -> "TRUE"
    [] l = "'a'" -> "'A'"
    [] l = "'b'" -> "'B'"
    [] l = "\"b\"" -> "\"B\""
    [] l = "w" -> "W"
    [] l = "created_at" -> "CREATED_AT"
    [] l = "Updated_At" -> "UPDATED_AT"
    [] l = "deleted_at" -> "DELETED_AT"
    [] OTHER -> l

UpperSeq(s) == [i \in 1..Len(s) |-> Upper(s[i])]

\* ------------------------------------------------------- sequence helpers
Slice(s, a, b) == IF a > b THEN <<>> ELSE [i \in 1..(b - a + 1) |-> s[a + i - 1]]

Positions(s, l) == {i \in 1..Len(s) : s[i] = l}

Min(S) == CHOOSE m \in S : \A n \in S : m <= n

\* s.find(l, from): the first index >= from holding l, 0 when there is none
Find(s, l, from) ==
  LET P == {i \in Positions(s, l) : i >= from}
  IN IF P = {} THEN 0 ELSE Min(P)

Contains(s, l) == Positions(s, l) # {}

FilterOut(s, l) == SelectSeq(s, LAMBDA e : e # l)

\* --------------------------------------------------------------- normalise
\* (sql_text or "").strip(), backticks removed, whitespace runs collapsed
Normalize(r) == IF r.isNone THEN <<>> ELSE FilterOut(r.text, Backtick)

\* ------------------------------------------------------- header extraction
\* m_table / table_name: the regex matches the header lexeme anywhere
TableName(text) == IF Contains(text, Header) THEN "t" ELSE "unknown"

\* start = sql_text.find("(")
StartOf(text) == Find(text, "(", 1)

\* the depth scan from start: the index of the ")" that brings depth to 0
RECURSIVE ScanEnd(_, _, _)
ScanEnd(text, i, depth) ==
  IF i > Len(text) THEN 0
  ELSE IF text[i] = "(" THEN ScanEnd(text, i + 1, depth + 1)
  ELSE IF text[i] = ")"
       THEN IF depth - 1 = 0 THEN i ELSE ScanEnd(text, i + 1, depth - 1)
  ELSE ScanEnd(text, i + 1, depth)

EndOf(text) == IF StartOf(text) = 0 THEN 0 ELSE ScanEnd(text, StartOf(text), 0)

\* ----------------------------------------------------------- clause split
\* the negative lookahead of the split pattern at the comma at p: the comma
\* is no split point when the first parenthesis after p is a closing one
NextParen(s, p) ==
  LET P == {q \in (p + 1)..Len(s) : s[q] \in {"(", ")"}}
  IN IF P = {} THEN 0 ELSE Min(P)

LookaheadClosed(s, p) == NextParen(s, p) # 0 /\ s[NextParen(s, p)] = ")"

SplitPoints(s) == {p \in Positions(s, ",") : ~LookaheadClosed(s, p)}

\* re.split at the split points, pieces stripped, empty pieces dropped
RECURSIVE SplitAt(_, _, _)
SplitAt(s, from, P) ==
  LET nxt == {p \in P : p >= from}
  IN IF nxt = {}
     THEN (IF from > Len(s) THEN <<>> ELSE <<Slice(s, from, Len(s))>>)
     ELSE LET p == Min(nxt)
              piece == Slice(s, from, p - 1)
          IN (IF piece = <<>> THEN <<>> ELSE <<piece>>) \o SplitAt(s, p + 1, P)

SplitItems(s) == SplitAt(s, 1, SplitPoints(s))

\* parenthesis depth of the text before position p
RECURSIVE DepthAt(_, _)
DepthAt(s, p) ==
  IF p <= 1 THEN 0
  ELSE DepthAt(s, p - 1)
       + (IF s[p - 1] = "(" THEN 1 ELSE IF s[p - 1] = ")" THEN -1 ELSE 0)

\* ------------------------------------------------------------- characters
\* the characters of a literal lexeme; any other lexeme is one opaque symbol
Chars(l) ==
  CASE l = "0" -> <<"0">>
    [] l = "1" -> <<"1">>
    [] l = "7" -> <<"7">>
    [] l = "10" -> <<"1", "0">>
    [] l = "100" -> <<"1", "0", "0">>
    [] l = "0.5" -> <<"0", ".", "5">>
    [] l = "1.5" -> <<"1", ".", "5">>
    [] l = "-5" -> <<"-", "5">>
    [] l = "true" -> <<"t", "r", "u", "e">>
    [] l = "FALSE" -> <<"F", "A", "L", "S", "E">>
    [] l = "now" -> <<"n", "o", "w">>
    [] l = "'a'" -> <<"'", "a", "'">>
    [] l = "'b'" -> <<"'", "b", "'">>
    [] l = "\"b\"" -> <<"\"", "b", "\"">>
    [] OTHER -> <<l>>

\* the text of a run of lexemes: their characters, one blank between lexemes
RECURSIVE TextOf(_)
TextOf(s) ==
  IF s = <<>> THEN <<>>
  ELSE IF Len(s) = 1 THEN Chars(s[1])
  ELSE Chars(s[1]) \o <<" ">> \o TextOf(Tail(s))

Digits == {"0", "1", "5", "7"}
Letters == {"a", "b", "c", "e", "n", "o", "r", "t", "u", "w", "x",
            "A", "B", "E", "F", "L", "S"}
LowerChar(ch) ==
  CASE ch = "A" -> "a" [] ch = "B" -> "b" [] ch = "E" -> "e" [] ch = "F" -> "f"
    [] ch = "L" -> "l" [] ch = "S" -> "s" [] OTHER -> ch
LowerChars(t) == [i \in 1..Len(t) |-> LowerChar(t[i])]

IsPrefix(p, t) == Len(p) <= Len(t) /\ Slice(t, 1, Len(p)) = p

\* the longest run of digits of t from position i: the position after it
RECURSIVE DigitsEnd(_, _)
DigitsEnd(t, i) ==
  IF i <= Len(t) /\ t[i] \in Digits THEN DigitsEnd(t, i + 1) ELSE i

\* the longest run of word characters of t from position i
RECURSIVE WordEnd(_, _)
WordEnd(t, i) ==
  IF i <= Len(t) /\ t[i] \in Letters \cup Digits THEN WordEnd(t, i + 1) ELSE i

\* v.strip("'").strip('"')
RECURSIVE StripChar(_, _)
StripChar(t, q) ==
  IF t # <<>> /\ t[1] = q THEN StripChar(Tail(t), q)
  ELSE IF t # <<>> /\ t[Len(t)] = q THEN StripChar(Slice(t, 1, Len(t) - 1), q)
  ELSE t

StripQuotes(t) == StripChar(StripChar(t, "'"), "\"")

\* --------------------------------------------------------- item classifier
\* lexemes that the identifier pattern [A-Za-z_]\w* matches whole
Idents == Names \cup {"r", "x", "w", "now", "true", "FALSE", "INT", "VARCHAR",
                      "TEXT", "DECIMAL", "BOOLEAN", "TIMESTAMP", "ENUM",
                      "DEFAULT", "REFERENCES", "AUTO_INCREMENT", "CASCADE",
                      "RESTRICT"}
IsIdent(l) == l \in Idents

\* c.split(","): every comma splits, the pieces are kept even when empty
RECURSIVE SplitComma(_)
SplitComma(s) ==
  LET p == Find(s, ",", 1)
  IN IF p = 0 THEN <<s>>
     ELSE <<Slice(s, 1, p - 1)>> \o SplitComma(Slice(s, p + 1, Len(s)))

\* m_tpk: PRIMARY KEY ( group ) at the head of the upper-cased item; the index
\* of the closing parenthesis, 0 when the pattern does not match
TpkClose(upper) ==
  IF Len(upper) >= 3 /\ upper[1] = "PRIMARY KEY" /\ upper[2] = "("
  THEN Find(upper, ")", 3)
  ELSE 0

\* table_level_pk: the names of the group, taken from the upper-cased item
TpkNames(item) ==
  LET upper == UpperSeq(item)
  IN SplitComma(Slice(upper, 3, TpkClose(upper) - 1))

\* m_tfk: FOREIGN KEY ( cols ) REFERENCES ref ( refcols ) tail, on the item
TfkClose1(item) ==
  IF Len(item) >= 3 /\ Upper(item[1]) = "FOREIGN KEY" /\ item[2] = "("
  THEN Find(item, ")", 3)
  ELSE 0

TfkClose2(item) ==
  LET q == TfkClose1(item)
  IN IF q # 0 /\ Len(item) >= q + 4 /\ Upper(item[q + 1]) = "REFERENCES"
        /\ IsIdent(item[q + 2]) /\ item[q + 3] = "("
     THEN Find(item, ")", q + 4)
     ELSE 0

TfkMatches(item) == TfkClose2(item) # 0

\* parse_actions: the first ON DELETE / ON UPDATE action of the tail,
\* lower-cased with blanks removed, "noaction" written "no action"
ActionWords == {"CASCADE", "SET NULL", "RESTRICT", "NO ACTION"}
NormAction(a) ==
  CASE a = "CASCADE" -> "cascade"
    [] a = "SET NULL" -> "setnull"
    [] a = "RESTRICT" -> "restrict"
    [] a = "NO ACTION" -> "no action"
    [] OTHER -> ""

ActionOf(tail_upper, marker) ==
  LET P == {k \in 1..(Len(tail_upper) - 1) :
              tail_upper[k] = marker /\ tail_upper[k + 1] \in ActionWords}
  IN IF P = {} THEN "" ELSE NormAction(tail_upper[Min(P) + 1])

parse_actions(tail_upper) ==
  [onDelete |-> ActionOf(tail_upper, "ON DELETE"),
   onUpdate |-> ActionOf(tail_upper, "ON UPDATE")]

TfkRecord(item) ==
  LET q == TfkClose1(item)
      r == TfkClose2(item)
      act == parse_actions(UpperSeq(Slice(item, r + 1, Len(item))))
  IN [cols |-> SplitComma(Slice(item, 3, q - 1)),
      ref_table |-> item[q + 2],
      ref_cols |-> SplitComma(Slice(item, q + 4, r - 1)),
      onDelete |-> act.onDelete,
      onUpdate |-> act.onUpdate]

\* ------------------------------------------------------ default extraction
\* the positions of a DEFAULT keyword that something follows
DefPositions(rest) == {k \in 1..(Len(rest) - 1) : Upper(rest[k]) = "DEFAULT"}

DefTail(rest, k) == TextOf(Slice(rest, k + 1, Len(rest)))

\* '...' or "..." at the head of t: the index of the closing quote, else 0
QuoteClose(t, q) ==
  IF t # <<>> /\ t[1] = q THEN Find(t, q, 2) ELSE 0

\* (true|false|TRUE|FALSE|0|1), case-insensitive, at the head of t: its length
BoolLen(t) ==
  IF IsPrefix(<<"t", "r", "u", "e">>, LowerChars(t)) THEN 4
  ELSE IF IsPrefix(<<"f", "a", "l", "s", "e">>, LowerChars(t)) THEN 5
  ELSE IF t # <<>> /\ t[1] \in {"0", "1"} THEN 1
  ELSE 0

\* [+-]?\d+(?:\.\d+)? at the head of t: its length, 0 when it does not match
NumLen(t) ==
  LET s0 == IF t # <<>> /\ t[1] \in {"+", "-"} THEN 2 ELSE 1
      e1 == DigitsEnd(t, s0)
      e2 == IF e1 <= Len(t) /\ t[e1] = "." THEN DigitsEnd(t, e1 + 1) ELSE e1
  IN IF e1 = s0 THEN 0
     ELSE IF e2 > e1 + 1 THEN e2 - 1
     ELSE e1 - 1

\* [A-Za-z_]\w*\s*\([^)]*\) at the head of t: its length, 0 when no match
FnLen(t) ==
  IF t = <<>> THEN 0
  ELSE IF t[1] \notin Letters THEN 0
  ELSE LET w == WordEnd(t, 1)
           o == IF w <= Len(t) /\ t[w] = " " THEN w + 1 ELSE w
       IN IF o <= Len(t) /\ t[o] = "(" THEN Find(t, ")", o + 1) ELSE 0

StrMatches(t) == QuoteClose(t, "'") # 0
QuotedMatches(t) == QuoteClose(t, "\"") # 0
BoolMatches(t) == BoolLen(t) # 0
NumMatches(t) == NumLen(t) # 0
FnMatches(t) == FnLen(t) # 0

FormMatches(form, t) ==
  CASE form = "str" -> StrMatches(t)
    [] form = "quoted" -> QuotedMatches(t)
    [] form = "num" -> NumMatches(t)
    [] form = "bool" -> BoolMatches(t)
    [] form = "fn" -> FnMatches(t)

\* re.search of one DEFAULT pattern: the first DEFAULT it matches at, else 0
FirstDef(rest, form) ==
  LET P == {k \in DefPositions(rest) : FormMatches(form, DefTail(rest, k))}
  IN IF P = {} THEN 0 ELSE Min(P)

NoDefault == [present |-> FALSE, value |-> <<>>]
SomeDefault(v) == [present |-> TRUE, value |-> v]

Requote(t, q) == <<"\"">> \o Slice(t, 2, QuoteClose(t, q) - 1) \o <<"\"">>

BoolValue(t) ==
  LET val == LowerChars(Slice(t, 1, BoolLen(t)))
  IN IF val = <<"1">> THEN <<"t", "r", "u", "e">>
     ELSE IF val = <<"0">> THEN <<"f", "a", "l", "s", "e">>
     ELSE val

\* col["default"]: the if/elif chain over the five matches
DefaultOf(rest) ==
  LET m_def_str == FirstDef(rest, "str")
      m_def_quoted == FirstDef(rest, "quoted")
      m_def_num == FirstDef(rest, "num")
      m_def_bool == FirstDef(rest, "bool")
      m_def_fn == FirstDef(rest, "fn")
  IN IF m_def_str # 0 THEN SomeDefault(Requote(DefTail(rest, m_def_str), "'"))
     ELSE IF m_def_quoted # 0
          THEN SomeDefault(Requote(DefTail(rest, m_def_quoted), "\""))
     ELSE IF m_def_bool # 0 THEN SomeDefault(BoolValue(DefTail(rest, m_def_bool)))
     ELSE IF m_def_num # 0
          THEN SomeDefault(Slice(DefTail(rest, m_def_num), 1,
                                 NumLen(DefTail(rest, m_def_num))))
     ELSE IF m_def_fn # 0
          THEN SomeDefault(Slice(DefTail(rest, m_def_fn), 1,
                                 FnLen(DefTail(rest, m_def_fn))))
     ELSE NoDefault

\* --------------------------------------------------------- column parsing
HasAny(rest_up, S) == \E i \in 1..Len(rest_up) : rest_up[i] \in S

\* m_enum: ENUM ( group ) anywhere in rest: the index of ENUM, 0 when absent
EnumAt(rest) ==
  LET P == {k \in 1..(Len(rest) - 2) :
              Upper(rest[k]) = "ENUM" /\ rest[k + 1] = "("
              /\ Find(rest, ")", k + 2) # 0}
  IN IF P = {} THEN 0 ELSE Min(P)

\* faulty variant of EnumVals: the values kept with their quotes
EnumValsQuoted(rest) ==
  LET k == EnumAt(rest)
      group == Slice(rest, k + 2, Find(rest, ")", k + 2) - 1)
      pieces == SplitItems(group)
  IN [i \in 1..Len(pieces) |-> TextOf(pieces[i])]

\* vals: the group split by the comma pattern, blank pieces dropped, quotes
\* stripped from both ends of each piece
EnumVals(rest) ==
  LET k == EnumAt(rest)
      group == Slice(rest, k + 2, Find(rest, ")", k + 2) - 1)
      pieces == SplitItems(group)
  IN [i \in 1..Len(pieces) |-> StripQuotes(TextOf(pieces[i]))]

NoRef == [present |-> FALSE, table |-> "", column |-> <<>>, onDelete |-> "",
          onUpdate |-> ""]

\* m_ref: REFERENCES ref ( col ) tail anywhere in rest
RefAt(rest) ==
  LET P == {k \in 1..(Len(rest) - 4) :
              Upper(rest[k]) = "REFERENCES" /\ IsIdent(rest[k + 1])
              /\ rest[k + 2] = "(" /\ IsIdent(rest[k + 3]) /\ rest[k + 4] = ")"}
  IN IF P = {} THEN 0 ELSE Min(P)

RefOf(rest) ==
  LET k == RefAt(rest)
      act == parse_actions(UpperSeq(Slice(rest, k + 5, Len(rest))))
  IN IF k = 0 THEN NoRef
     ELSE [present |-> TRUE, table |-> rest[k + 1], column |-> <<rest[k + 3]>>,
           onDelete |-> act.onDelete, onUpdate |-> act.onUpdate]

IdentityMarkers == {"AUTO_INCREMENT", "GENERATED ALWAYS AS IDENTITY",
                    "GENERATED BY DEFAULT AS IDENTITY"}

\* the explicit type of the remainder: the if/elif chain of step 4; a length
\* "(n)" is written without blanks and is not drawn, so m_len is None
DeclaredType(rest_up) ==
  IF HasAny(rest_up, {"BIGINT", "SMALLINT", "INT", "INTEGER"})
  THEN [ts_type |-> "integer", raw_type |-> "INT", length |-> 0]
  ELSE IF HasAny(rest_up, {"VARCHAR", "CHAR"})
  THEN [ts_type |-> "varchar", raw_type |-> "VARCHAR", length |-> 255]
  ELSE IF HasAny(rest_up, {"LONGTEXT", "TEXT"})
  THEN [ts_type |-> "text", raw_type |-> "TEXT", length |-> 0]
  ELSE IF HasAny(rest_up, {"DOUBLE", "FLOAT", "DECIMAL", "NUMERIC"})
  THEN [ts_type |-> "double", raw_type |-> "DOUBLE", length |-> 0]
  ELSE IF HasAny(rest_up, {"BOOLEAN", "TINYINT(1)"})
  THEN [ts_type |-> "boolean", raw_type |-> "BOOLEAN", length |-> 0]
  ELSE IF HasAny(rest_up, {"DATETIME", "TIMESTAMP", "DATE"})
  THEN [ts_type |-> "timestamp", raw_type |-> "TIMESTAMP", length |-> 0]
  ELSE [ts_type |-> "", raw_type |-> "", length |-> 0]

\* the inference that follows the chain, for a column that is no enum:
\* identity forces integer and primary, an untyped primary column is an
\* integer, anything still untyped is text
InferType(declared, primary, identity) ==
  LET t1 == IF identity THEN "integer" ELSE declared.ts_type
      p1 == IF identity THEN TRUE ELSE primary
      t2 == IF p1 /\ t1 = "" THEN "integer" ELSE t1
      t3 == IF t2 = "" THEN "text" ELSE t2
  IN [ts_type |-> t3, primary |-> p1]

\* item.split(None, 1): the name is the first word of the item; a lexeme of
\* several words gives its first word and leaves the others in the remainder
FirstWord(l) ==
  CASE l = Header -> "CREATE"
    [] l = "PRIMARY KEY" -> "PRIMARY"
    [] l = "FOREIGN KEY" -> "FOREIGN"
    [] l = "NOT NULL" -> "NOT"
    [] l = "ON DELETE" -> "ON"
    [] l = "SET NULL" -> "SET"
    [] OTHER -> l

OtherWords(l) ==
  CASE l = Header -> <<"TABLE t">>
    [] l = "PRIMARY KEY" -> <<"KEY">>
    [] l = "FOREIGN KEY" -> <<"KEY">>
    [] l = "NOT NULL" -> <<"NULL">>
    [] l = "ON DELETE" -> <<"DELETE">>
    [] l = "SET NULL" -> <<"NULL">>
    [] OTHER -> <<>>

ColName(item) == FirstWord(item[1])
RestOf(item) == OtherWords(item[1]) \o Tail(item)

\* the col dict built from one column definition item
ParseColumn(item) ==
  LET col_name == ColName(item)
      rest == RestOf(item)
      rest_upper == UpperSeq(rest)
      primary == Contains(rest_upper, "PRIMARY KEY")
      identity == HasAny(rest_upper, IdentityMarkers)
      isEnum == EnumAt(rest) # 0
      declared == DeclaredType(rest_upper)
      inferred == InferType(declared, primary, identity)
      dflt == DefaultOf(rest)
  IN [name |-> col_name,
      ts_type |-> IF isEnum THEN "enum" ELSE inferred.ts_type,
      length |-> IF isEnum THEN 0 ELSE declared.length,
      not_null |-> Contains(rest_upper, "NOT NULL"),
      has_default |-> dflt.present,
      default |-> dflt.value,
      primary |-> IF isEnum THEN primary ELSE inferred.primary,
      identity |-> identity,
      enum_name |-> IF isEnum THEN <<col_name, "Enum">> ELSE <<>>,
      enum_values |-> IF isEnum THEN EnumVals(rest) ELSE <<>>,
      references |-> RefOf(rest),
      raw_type |-> IF isEnum THEN "ENUM" ELSE declared.raw_type]

\* the enums entry an ENUM column appends: pgEnum('<col>', [vals])
EnumDecl(item) == [name |-> ColName(item), values |-> EnumVals(RestOf(item))]

\* ----------------------------------------------------------- the columns
\* `key in columns`: a name piece is a key when it is one lexeme that names
\* a parsed column
KeyIn(piece, cols) == Len(piece) = 1 /\ piece[1] \in DOMAIN cols

\* columns[name] = col
Put(cols, name, col) ==
  [n \in DOMAIN cols \cup {name} |-> IF n = name THEN col ELSE cols[n]]

\* ----------------------------------------------------------- pass 2 rules
\* faulty variant of SinglePkGuard: the `in columns` test left out
SinglePkGuardOff(pkc, cols) == TRUE

\* line 347: the single-column primary key applies to a parsed column only
SinglePkGuard(pkc, cols) == KeyIn(pkc, cols)

\* line 354: the composite key keeps the named columns that exist
CompositeOf(pk, cols) == SelectSeq(pk, LAMBDA c : KeyIn(c, cols))

\* lines 349-351 and 357-359: a column without a raw type becomes varchar(200)
Nudge(col) ==
  IF col.raw_type = ""
  THEN [col EXCEPT !.ts_type = "varchar", !.length = 200]
  ELSE col

\* lines 348-351
MarkPrimary(col) == Nudge([col EXCEPT !.primary = TRUE])

NoComposite == [present |-> FALSE, cols |-> <<>>]

\* ------------------------------------------------------------- rendering
BlankLine ==
  [kind |-> "", name |-> "", fn |-> "", enum_ref |-> <<>>, length |-> 0,
   has_dv |-> FALSE, dv |-> <<>>, nn |-> FALSE, pk |-> FALSE, ident |-> FALSE,
   ref |-> NoRef, values |-> <<>>, cols |-> <<>>, all_cols |-> <<>>,
   ref_table |-> "", ref_cols |-> <<>>, onDelete |-> "", onUpdate |-> ""]

\* export const <name>Enum = pgEnum('<name>', [values]);
EnumLine(e) == [BlankLine EXCEPT !.kind = "enum", !.name = e.name,
                                 !.enum_ref = <<e.name, "Enum">>,
                                 !.values = e.values]

\* export const <table> = pgTable("<table>", {
TableLine(t) == [BlankLine EXCEPT !.kind = "table", !.name = t]

\* the builder function col_builder calls for a ts_type
BuilderFn(t) ==
  IF t \in {"enum", "integer", "varchar", "text", "double", "boolean",
            "timestamp"}
  THEN t
  ELSE "text"

\* col_builder: <name>: <fn>("<name>")<dv><nn><pk><ident><ref>,
col_builder(c) ==
  [BlankLine EXCEPT
     !.kind = "col",
     !.name = c.name,
     !.fn = BuilderFn(c.ts_type),
     !.enum_ref = IF c.ts_type = "enum" THEN c.enum_name ELSE <<>>,
     !.length = IF c.ts_type = "varchar"
                THEN (IF c.length # 0 THEN c.length ELSE 255)
                ELSE 0,
     !.has_dv = c.has_default,
     !.dv = c.default,
     !.nn = c.not_null,
     !.pk = c.primary,
     !.ident = c.identity,
     !.ref = c.references]

\* lines 362-409: the enums, the table line, one line per column, the brace
ColumnLines(en, tname, order, cols) ==
  [i \in 1..Len(en) |-> EnumLine(en[i])]
  \o <<TableLine(tname)>>
  \o [i \in 1..Len(order) |-> col_builder(cols[order[i]])]
  \o <<[BlankLine EXCEPT !.kind = "close"]>>

\* pk: primaryKey(table.a, table.b)
PkEntry(cpk) == [BlankLine EXCEPT !.kind = "pk", !.name = "pk", !.cols = cpk]

\* fk_<cols>_<ref>: foreignKey({ columns, foreignColumns }, { actions })
FkEntry(tfk, cols) ==
  [BlankLine EXCEPT !.kind = "fk", !.all_cols = tfk.cols,
                    !.cols = SelectSeq(tfk.cols, LAMBDA c : KeyIn(c, cols)),
                    !.ref_table = tfk.ref_table, !.ref_cols = tfk.ref_cols,
                    !.onDelete = tfk.onDelete, !.onUpdate = tfk.onUpdate]

\* line 426: a single-column key on a parsed column without a reference
FkFolds(tfk, cols) ==
  Len(tfk.cols) = 1 /\ KeyIn(tfk.cols[1], cols)
  /\ ~cols[tfk.cols[1][1]].references.present

\* line 429: the reference patched into the column
FkPatch(tfk, cols) ==
  LET n == tfk.cols[1][1]
  IN Put(cols, n,
         [cols[n] EXCEPT !.references =
            [present |-> TRUE, table |-> tfk.ref_table,
             column |-> tfk.ref_cols[1], onDelete |-> tfk.onDelete,
             onUpdate |-> tfk.onUpdate]])

\* lines 419-441: the loop over the table-level foreign keys, from the i-th:
\* the columns after it and the builder entries it appends
RECURSIVE FkLoop(_, _, _, _)
FkLoop(fks, i, cols, entries) ==
  IF i > Len(fks) THEN [columns |-> cols, entries |-> entries]
  ELSE IF FkFolds(fks[i], cols)
       THEN FkLoop(fks, i + 1, FkPatch(fks[i], cols), entries)
       ELSE FkLoop(fks, i + 1, cols, Append(entries, FkEntry(fks[i], cols)))

\* lines 444-450: the second builder block, when there are entries, and ");"
BuilderLines(entries) ==
  (IF entries = <<>> THEN <<>>
   ELSE <<[BlankLine EXCEPT !.kind = "builder_open"]>> \o entries
        \o <<[BlankLine EXCEPT !.kind = "builder_close"]>>)
  \o <<[BlankLine EXCEPT !.kind = "end"]>>

\* ---------------------------------------------------------------- inputs
\* all sequences over S of length at most n
RECURSIVE SeqsUpTo(_, _)
SeqsUpTo(S, n) ==
  IF n = 0 THEN {<<>>}
  ELSE LET shorter == SeqsUpTo(S, n - 1)
       IN shorter \cup {Append(t, e) : t \in {u \in shorter : Len(u) = n - 1},
                                       e \in S}

RECURSIVE JoinComma(_)
JoinComma(its) ==
  IF its = <<>> THEN <<>>
  ELSE IF Len(its) = 1 THEN its[1]
  ELSE its[1] \o <<",">> \o JoinComma(Tail(its))

Text(t) == [isNone |-> FALSE, text |-> t]
NoneInput == [isNone |-> TRUE, text |-> <<>>]

\* free-form texts: every sequence of punctuation, a word and the header
TextAlphabet == {"(", ")", ",", "w", Header}
FreeTexts(n) == {Text(t) : t \in SeqsUpTo(TextAlphabet, n)}

\* structured statements: column definitions and table-level constraints
ColMenu ==
  { <<"A">>,
    <<"c">>,
    <<"B", "INT", "NOT NULL", "DEFAULT", "10">>,
    <<"A", "PRIMARY KEY">>,
    <<"A", "AUTO_INCREMENT">>,
    <<"A", "ENUM", "(", "'a'", ",", "'a'", ",", "\"b\"", ")">>,
    <<"B", "ENUM", "(", "'b'", ")", "AUTO_INCREMENT">>,
    <<"B", "TEXT", "REFERENCES", "r", "(", "x", ")", "ON DELETE", "CASCADE">> }

ConMenu ==
  { <<"PRIMARY KEY", "(", "A", ")">>,
    <<"PRIMARY KEY", "(", "c", ")">>,
    <<"PRIMARY KEY", "(", "A", ",", "B", ")">>,
    <<"PRIMARY KEY", "(", "A", ",", "c", ")">>,
    <<"FOREIGN KEY", "(", "B", ")", "REFERENCES", "r", "(", "x", ")",
      "ON DELETE", "SET NULL">>,
    <<"FOREIGN KEY", "(", "A", ",", "B", ")", "REFERENCES", "r",
      "(", "x", ",", "w", ")">> }

Statement(cols, cons) ==
  Text(<<Header, "(">> \o JoinComma(cols \o cons) \o <<")">>)

Statements ==
  {Statement(cols, cons) : cols \in SeqsUpTo(ColMenu, MaxCols),
                           cons \in SeqsUpTo(ConMenu, MaxCons)}

\* one column, every combination of type, markers and DEFAULT literal
TypeMenu == {<<>>, <<"INT">>, <<"VARCHAR">>, <<"TEXT">>, <<"DECIMAL">>,
             <<"BOOLEAN">>, <<"TIMESTAMP">>, <<"ENUM", "(", "'a'", ")">>}
MarkerMenu == {<<>>, <<"NOT NULL">>, <<"PRIMARY KEY">>,
               <<"NOT NULL", "AUTO_INCREMENT">>}
NumericLits == {"0", "1", "7", "10", "100", "0.5", "1.5", "-5"}
DefaultMenu ==
  {<<>>} \cup {<<"DEFAULT", l>> : l \in NumericLits \cup
                                  {"true", "FALSE", "'a'", "\"b\"", "w"}}
  \cup {<<"DEFAULT", "now", "(", ")">>}

OneColumn ==
  {Text(<<Header, "(", "A">> \o ty \o mk \o df \o <<")">>) :
     ty \in TypeMenu, mk \in MarkerMenu, df \in DefaultMenu}

\* one column with a conventional audit name, every type and marker
AuditNames == {"created_at", "Updated_At", "deleted_at"}
AuditColumn ==
  {Text(<<Header, "(", n>> \o ty \o mk \o <<")">>) :
     n \in AuditNames, ty \in TypeMenu, mk \in MarkerMenu}

\* inputs the header extraction rejects or names "unknown", and backticks
Malformed ==
  { NoneInput,
    Text(<<>>),
    Text(<<Header>>),
    Text(<<Header, "(", "A", "INT">>),
    Text(<<Header, "(", "A", "ENUM", "(", "'a'", ")">>),
    Text(<<"(", "A", "INT", ")">>),
    Text(<<"(", "A", ")", Header>>),
    Text(<<Header, "(", Backtick, "A", Backtick, "INT", ")">>) }

\* ----------------------------------------------------------- the machine
NoResult == [kind |-> "", table |-> ""]

InitWith(inputs) ==
  /\ raw \in inputs
  /\ pc = "start"
  /\ sql_text = <<>>
  /\ table_name = ""
  /\ inside = <<>>
  /\ items = <<>>
  /\ idx = 1
  /\ columns = [n \in {} |-> 0]
  /\ colOrder = <<>>
  /\ table_level_pk = <<>>
  /\ table_level_fks = <<>>
  /\ enums = <<>>
  /\ composite_pk = NoComposite
  /\ lines = <<>>
  /\ result = NoResult

Init == InitWith(Statements \cup OneColumn \cup AuditColumn \cup Malformed)

InitText == InitWith(FreeTexts(MaxLen))

\* lines 127-136: normalise the text and find the table name
NormalizeText ==
  /\ pc = "start"
  /\ sql_text' = Normalize(raw)
  /\ table_name' = TableName(Normalize(raw))
  /\ pc' = "extract"
  /\ UNCHANGED <<raw, inside, items, idx, columns, colOrder, table_level_pk,
                 table_level_fks, enums, composite_pk, lines, result>>

\* lines 140-156: the column block, or one of the two diagnostics
ExtractBlock ==
  /\ pc = "extract"
  /\ IF StartOf(sql_text) = 0
     THEN /\ result' = [kind |-> "failed_table", table |-> table_name]
          /\ pc' = "done"
          /\ inside' = inside
     ELSE IF EndOf(sql_text) = 0
     THEN /\ result' = [kind |-> "failed_columns", table |-> table_name]
          /\ pc' = "done"
          /\ inside' = inside
     ELSE /\ inside' = Slice(sql_text, StartOf(sql_text) + 1,
                             EndOf(sql_text) - 1)
          /\ pc' = "split"
          /\ result' = result
  /\ UNCHANGED <<raw, sql_text, table_name, items, idx, columns, colOrder,
                 table_level_pk, table_level_fks, enums, composite_pk, lines>>

\* line 159: the top-level items
SplitClauses ==
  /\ pc = "split"
  /\ items' = SplitItems(inside)
  /\ idx' = 1
  /\ pc' = "pass1"
  /\ UNCHANGED <<raw, sql_text, table_name, inside, columns, colOrder,
                 table_level_pk, table_level_fks, enums, composite_pk, lines,
                 result>>

\* lines 186-338: one iteration of pass 1
ParseItem ==
  /\ pc = "pass1"
  /\ idx <= Len(items)
  /\ LET item == items[idx]
     IN IF TpkClose(UpperSeq(item)) # 0
        THEN /\ table_level_pk' = TpkNames(item)
             /\ UNCHANGED <<table_level_fks, columns, colOrder, enums>>
        ELSE IF TfkMatches(item)
        THEN /\ table_level_fks' = Append(table_level_fks, TfkRecord(item))
             /\ UNCHANGED <<table_level_pk, columns, colOrder, enums>>
        ELSE /\ columns' = Put(columns, ColName(item), ParseColumn(item))
             /\ colOrder' = IF ColName(item) \in DOMAIN columns THEN colOrder
                            ELSE Append(colOrder, ColName(item))
             /\ enums' = IF EnumAt(RestOf(item)) # 0
                         THEN Append(enums, EnumDecl(item))
                         ELSE enums
             /\ UNCHANGED <<table_level_pk, table_level_fks>>
  /\ idx' = idx + 1
  /\ UNCHANGED <<raw, pc, sql_text, table_name, inside, items, composite_pk,
                 lines, result>>

\* lines 343-359: pass 2, the table-level primary key
ResolvePK ==
  /\ pc = "pass1"
  /\ idx > Len(items)
  /\ IF table_level_pk = <<>>
     THEN UNCHANGED <<columns, composite_pk, result>> /\ pc' = "render"
     ELSE IF Len(table_level_pk) = 1
     THEN /\ composite_pk' = composite_pk
          /\ IF SinglePkGuard(table_level_pk[1], columns)
             THEN IF KeyIn(table_level_pk[1], columns)
                  THEN /\ columns' = Put(columns, table_level_pk[1][1],
                                         MarkPrimary(columns[table_level_pk[1][1]]))
                       /\ pc' = "render"
                       /\ result' = result
                  ELSE /\ result' = [kind |-> "KeyError", table |-> table_name]
                       /\ pc' = "done"
                       /\ columns' = columns
             ELSE UNCHANGED <<columns, result>> /\ pc' = "render"
     ELSE /\ composite_pk' = [present |-> TRUE,
                              cols |-> CompositeOf(table_level_pk, columns)]
          /\ columns' = [n \in DOMAIN columns |->
                           IF \E i \in 1..Len(table_level_pk) :
                                table_level_pk[i] = <<n>>
                           THEN Nudge(columns[n]) ELSE columns[n]]
          /\ pc' = "render"
          /\ result' = result
  /\ UNCHANGED <<raw, sql_text, table_name, inside, items, idx, colOrder,
                 table_level_pk, table_level_fks, enums, lines>>

\* lines 362-409: the enum lines, the table line and the column lines
RenderColumns ==
  /\ pc = "render"
  /\ lines' = ColumnLines(enums, table_name, colOrder, columns)
  /\ pc' = "constraints"
  /\ UNCHANGED <<raw, sql_text, table_name, inside, items, idx, columns,
                 colOrder, table_level_pk, table_level_fks, enums,
                 composite_pk, result>>

\* lines 412-451: the builder entries, the foreign-key loop, the result
RenderConstraints ==
  /\ pc = "constraints"
  /\ LET pkEntries == IF Len(composite_pk.cols) > 1
                      THEN <<PkEntry(composite_pk.cols)>> ELSE <<>>
         loop == FkLoop(table_level_fks, 1, columns, pkEntries)
     IN /\ columns' = loop.columns
        /\ lines' = lines \o BuilderLines(loop.entries)
  /\ result' = [kind |-> "rendered", table |-> table_name]
  /\ pc' = "done"
  /\ UNCHANGED <<raw, sql_text, table_name, inside, items, idx, colOrder,
                 table_level_pk, table_level_fks, enums, composite_pk>>

Next ==
  \/ NormalizeText
  \/ ExtractBlock
  \/ SplitClauses
  \/ ParseItem
  \/ ResolvePK
  \/ RenderColumns
  \/ RenderConstraints

Spec == Init /\ [][Next]_vars

SpecText == InitText /\ [][Next]_vars

\* =================================================================== claims
\* What the statement says, read off the items as written (not as parsed).
Done == pc = "done"
Rendered == pc = "done" /\ result.kind = "rendered"
Failed == pc = "done" /\ result.kind \in {"failed_table", "failed_columns"}

IsPkItem(it) == it[1] = "PRIMARY KEY"
IsFkItem(it) == it[1] = "FOREIGN KEY"
IsColItem(it) == ~IsPkItem(it) /\ ~IsFkItem(it)

\* the column definitions of name n, and the one that stands (the last)
DefsOf(n) == {i \in 1..Len(items) : IsColItem(items[i]) /\ items[i][1] = n}
Defined(n) == DefsOf(n) # {}
LastDef(n) == items[CHOOSE i \in DefsOf(n) : \A j \in DefsOf(n) : j <= i]

TypeWords == {"INT", "VARCHAR", "TEXT", "DECIMAL", "BOOLEAN", "TIMESTAMP"}
HasWord(it, W) == \E k \in 2..Len(it) : it[k] \in W
Untyped(it) == ~HasWord(it, TypeWords \cup {"ENUM"})

\* the table-level primary key that stands: the last PRIMARY KEY item, and
\* the names written between its parentheses
PkItems == {i \in 1..Len(items) : IsPkItem(items[i])}
LastPk == items[CHOOSE i \in PkItems : \A j \in PkItems : j <= i]
WrittenNames(it) == SelectSeq(Slice(it, 3, Len(it) - 1), LAMBDA l : l # ",")

ColLines == {i \in 1..Len(lines) : lines[i].kind = "col"}
LinesOfKind(k) == {i \in 1..Len(lines) : lines[i].kind = k}

\* the commas of s outside every parenthesis
DepthZeroCommas(s) == {p \in Positions(s, ",") : DepthAt(s, p) = 0}

\* C1: the splitter splits at a comma if and only if the parenthesis depth at
\* that comma is zero, so the items are the pieces between depth-zero commas.
C1_SplitIffDepthZero ==
  pc = "pass1" =>
    /\ SplitPoints(inside) = DepthZeroCommas(inside)
    /\ items = SplitAt(inside, 1, DepthZeroCommas(inside))

\* C2: in the rendered model every identity column is an Integer and primary.
C2_IdentityIntegerPrimary ==
  Rendered =>
    \A n \in DOMAIN columns :
      columns[n].identity =>
        columns[n].ts_type = "integer" /\ columns[n].primary

\* C3: a table-level PRIMARY KEY (c) naming one defined column c, in any
\* letter case, makes c primary, makes it Varchar(200) when c has no declared
\* type, and produces no composite-key entry.
C3_SinglePkFolded ==
  (Rendered /\ PkItems # {} /\ Len(WrittenNames(LastPk)) = 1
            /\ Defined(WrittenNames(LastPk)[1])) =>
    LET c == WrittenNames(LastPk)[1]
    IN /\ columns[c].primary
       /\ Untyped(LastDef(c)) =>
            columns[c].ts_type = "varchar" /\ columns[c].length = 200
       /\ LinesOfKind("pk") = {}

\* C4: a table-level PRIMARY KEY (a, b) naming two defined columns gives
\* exactly one pk entry referencing a and b in that order, and sets the
\* primary flag of neither (a column is primary only by its own markers).
C4_CompositePk ==
  (Rendered /\ PkItems # {} /\ Len(WrittenNames(LastPk)) = 2
            /\ WrittenNames(LastPk)[1] # WrittenNames(LastPk)[2]
            /\ Defined(WrittenNames(LastPk)[1])
            /\ Defined(WrittenNames(LastPk)[2])) =>
    LET a == WrittenNames(LastPk)[1]
        b == WrittenNames(LastPk)[2]
    IN /\ Cardinality(LinesOfKind("pk")) = 1
       /\ \A i \in LinesOfKind("pk") : lines[i].cols = <<<<a>>, <<b>>>>
       /\ \A n \in {a, b} :
            columns[n].primary =>
              HasWord(LastDef(n), {"PRIMARY KEY"} \cup IdentityMarkers)

\* C5: a column with a column-level PRIMARY KEY marker and no declared type
\* is an Integer in the rendered model, whatever table-level key names it.
C5_ColumnPkInteger ==
  Rendered =>
    \A n \in DOMAIN columns :
      (HasWord(LastDef(n), {"PRIMARY KEY"}) /\ Untyped(LastDef(n))) =>
        columns[n].ts_type = "integer"

\* C6: when no "(" follows the CREATE TABLE <name> match, or the parentheses
\* from the first "(" after it never return to depth zero, the result is the
\* "Failed to parse" placeholder.
C6_BlockAfterHeader ==
  LET h == Find(sql_text, Header, 1)
      s == Find(sql_text, "(", h + 1)
  IN (Done /\ h # 0 /\ (s = 0 \/ ScanEnd(sql_text, s, 0) = 0)) => Failed

\* the text has no "(", or the depth never returns to that of its first "("
NeverCloses(text) ==
  LET s == Find(text, "(", 1)
  IN s = 0 \/ \A e \in (s + 1)..Len(text) :
                DepthAt(text, e + 1) # DepthAt(text, s)
\* the positions of the pipeline that still have a step to take
Running ==
  \/ pc \in {"start", "extract", "split", "render", "constraints"}
  \/ pc = "pass1" /\ idx \in 1..(Len(items) + 1)

\* C7: the call never raises and always ends with a string (every state short
\* of the end has a step to take, and pass 1 only moves forward); without a
\* table name the name is "unknown"; the placeholder is returned exactly when
\* the text has no "(" or the parentheses opened by the first "(" never close.
C7_Total ==
  /\ (Done \/ Running)
  /\ Done =>
       /\ result.kind \in {"failed_table", "failed_columns", "rendered"}
       /\ Failed <=> NeverCloses(Normalize(raw))
       /\ result.table = (IF Contains(Normalize(raw), Header)
                          THEN "t" ELSE "unknown")
       /\ Rendered =>
            Cardinality(ColLines) = Cardinality({items[i][1] : i \in
                                       {j \in 1..Len(items) : IsColItem(items[j])}})

\* C7 witness: a rendered statement whose primary key names no parsed column
\* and that defines some column twice.
C7_Witness ==
  /\ Rendered
  /\ Len(table_level_pk) = 1
  /\ ~KeyIn(table_level_pk[1], columns)
  /\ \E n \in DOMAIN columns : Cardinality(DefsOf(n)) > 1

\* the values written between the parentheses of an ENUM item, unquoted
Unquoted(l) ==
  CASE l = "'a'" -> <<"a">>
    [] l = "'b'" -> <<"b">>
    [] l = "\"b\"" -> <<"b">>
    [] OTHER -> <<l>>
EnumOpen(it) == CHOOSE k \in 2..Len(it) : it[k] = "ENUM"
DeclaredValues(it) ==
  LET k == EnumOpen(it)
      group == SelectSeq(Slice(it, k + 2, Find(it, ")", k + 2) - 1),
                         LAMBDA l : l # ",")
  IN [i \in 1..Len(group) |-> Unquoted(group[i])]
EnumItems == SelectSeq(items, LAMBDA it : IsColItem(it) /\ HasWord(it, {"ENUM"}))

PlainTable ==
  /\ DOMAIN columns # {}
  /\ \A n \in DOMAIN columns :
       columns[n].ts_type \in {"integer", "varchar", "text", "boolean"}
  /\ \A i \in 1..Len(items) : IsColItem(items[i])

\* C9: one call produces an ORM text and a PostgreSQL DDL text, and for a
\* table of Integer/Varchar/Text/Boolean columns without constraints the
\* not-null and default settings of the two agree for every column.
C9_DualEmitters ==
  (Rendered /\ PlainTable) =>
    /\ LinesOfKind("ddl_table") # {}
    /\ \A i \in ColLines :
         \E j \in LinesOfKind("ddl_col") :
           /\ lines[j].name = lines[i].name
           /\ lines[j].nn = lines[i].nn
           /\ lines[j].has_dv = lines[i].has_dv
           /\ lines[j].dv = lines[i].dv

\* C10: a numeric DEFAULT literal other than the bare 0 and 1 is stored
\* unchanged, never as true or false.
C10_NumericDefaultKept ==
  Rendered =>
    \A n \in DOMAIN columns :
      \A k \in 2..(Len(LastDef(n)) - 1) :
        (LastDef(n)[k] = "DEFAULT"
         /\ LastDef(n)[k + 1] \in NumericLits \ {"0", "1"}) =>
          /\ columns[n].has_default
          /\ columns[n].default = Chars(LastDef(n)[k + 1])

\* the table-level foreign keys as parsed, the reference clause each would
\* be as a column's own, and whether the i-th is to be folded: it names one
\* parsed column whose definition writes no REFERENCES and that no earlier
\* foreign key has been folded into
FkClause(f) ==
  [present |-> TRUE, table |-> f.ref_table, column |-> f.ref_cols[1],
   onDelete |-> f.onDelete, onUpdate |-> f.onUpdate]
FkFoldable(i) ==
  LET f == table_level_fks[i]
  IN /\ Len(f.cols) = 1
     /\ KeyIn(f.cols[1], columns)
     /\ ~HasWord(LastDef(f.cols[1][1]), {"REFERENCES"})
     /\ \A j \in 1..(i - 1) : table_level_fks[j].cols # f.cols
StandaloneFks ==
  SelectSeq([i \in 1..Len(table_level_fks) |-> i], LAMBDA i : ~FkFoldable(i))
FkLines == SelectSeq(lines, LAMBDA l : l.kind = "fk")
LineOf(n) == lines[CHOOSE k \in ColLines : lines[k].name = n]

\* C11: no table-level foreign key is lost: one that names exactly one parsed
\* column without a reference is the reference clause, with its actions, on
\* that column's line; every other one is a standalone foreignKey entry of
\* the second builder block, once and in order; and a reference written on
\* the column itself stays on its line.
C11_TableFksKept ==
  Rendered =>
    /\ \A i \in 1..Len(table_level_fks) :
         FkFoldable(i) =>
           LineOf(table_level_fks[i].cols[1][1]).ref =
             FkClause(table_level_fks[i])
    /\ FkLines = [k \in 1..Len(StandaloneFks) |->
                    FkEntry(table_level_fks[StandaloneFks[k]], columns)]
    /\ \A n \in DOMAIN columns :
         HasWord(LastDef(n), {"REFERENCES"}) =>
           LineOf(n).ref = RefOf(RestOf(LastDef(n)))

\* str.lower() on the column names
LowerName(n) ==
  CASE n = "Updated_At" -> "updated_at"
    [] n = "A" -> "a"
    [] n = "B" -> "b"
    [] OTHER -> n

\* C12: every column whose lower-cased name is created_at, updated_at or
\* deleted_at has the type timestamp in the rendered model, whatever type is
\* declared for it.
C12_AuditTimestamp ==
  Rendered =>
    \A n \in DOMAIN columns :
      LowerName(n) \in {"created_at", "updated_at", "deleted_at"} =>
        /\ columns[n].ts_type = "timestamp"
        /\ LineOf(n).fn = "timestamp"

====
